---- MODULE Spec2Model ----
(***************************************************************************)
(* The HTML message-body deserializer of hydrogen-web                       *)
(* (src/unnamed/part_000: class Deserializer and parseHTMLBody).            *)
(*                                                                         *)
(* The source tree delivered by platform.parseHTML is kept as an arena:    *)
(* nodes are numbered 1..Len(parent) in document order, parent[i] is the   *)
(* parent of node i (0 for a root node) and label[i] describes the node.   *)
(* parseHTMLBody is one synchronous call, modelled by the single action    *)
(* ParseHTMLBody; the methods of Deserializer are operators that return    *)
(* an outcome record: whether the call threw, the value it returned and    *)
(* the calls it made on the tree (attribute reads, nodes taken by the two  *)
(* traversals, texts given to linkify), in program order.                  *)
(***************************************************************************)
EXTENDS Integers, Sequences, FiniteSets, TLC

VARIABLES parent, label, mediaRepository, pc, result, log

vars == <<parent, label, mediaRepository, pc, result, log>>

(***************************************************************************)
(* JavaScript values.  Strings are sequences of chunks: a chunk is one     *)
(* character, or an opaque run of characters that no operation of the      *)
(* deserializer looks into.                                                *)
(***************************************************************************)
Null == [t |-> "null"]
NaN == [t |-> "NaN"]
Str(s) == [t |-> "string", s |-> s]
Num(n) == [t |-> "number", n |-> n]

\* ToBoolean: null, undefined, NaN, 0 and "" are falsy, objects are truthy.
Truthy(v) ==
    IF "t" \notin DOMAIN v THEN TRUE
    ELSE CASE v.t = "null" -> FALSE
           [] v.t = "NaN" -> FALSE
           [] v.t = "number" -> v.n # 0
           [] v.t = "string" -> v.s # <<>>
           [] OTHER -> TRUE

\* a || b
Or(a, b) == IF Truthy(a) THEN a ELSE b

Digits == <<"0", "1", "2", "3", "4", "5", "6", "7", "8", "9">>
IsDigit(c) == \E d \in 1..10 : Digits[d] = c
DigitVal(c) == (CHOOSE d \in 1..10 : Digits[d] = c) - 1

RECURSIVE SkipSpaces(_)
SkipSpaces(s) == IF s # <<>> /\ Head(s) = " " THEN SkipSpaces(Tail(s)) ELSE s

RECURSIVE ReadDigits(_, _)
ReadDigits(s, acc) ==
    IF s # <<>> /\ IsDigit(Head(s))
    THEN ReadDigits(Tail(s), 10 * acc + DigitVal(Head(s)))
    ELSE acc

\* parseInt(v) without a radix, on decimal input: ToString(v), leading white
\* space skipped, an optional sign, then the longest run of digits; NaN when
\* there is no digit there.  (undefined becomes "undefined": NaN.)
parseInt(v) ==
    IF v.t # "string" THEN NaN
    ELSE LET s0 == SkipSpaces(v.s)
             neg == s0 # <<>> /\ Head(s0) = "-"
             s1 == IF s0 # <<>> /\ Head(s0) \in {"-", "+"} THEN Tail(s0) ELSE s0
         IN IF s1 = <<>> \/ ~IsDigit(Head(s1)) THEN NaN
            ELSE Num((IF neg THEN -1 ELSE 1) * ReadDigits(s1, 0))

\* String.prototype.startsWith
startsWith(s, prefix) ==
    Len(s) >= Len(prefix) /\ SubSeq(s, 1, Len(prefix)) = prefix

\* String.prototype.substring(from), from counted from 0
substring(s, from) == SubSeq(s, from + 1, Len(s))

\* String.prototype.split(sep) for a one-character separator: the pieces
\* between the separators, empty pieces included ("".split(" ") is [""]).
RECURSIVE SplitFrom(_, _, _)
SplitFrom(s, sep, cur) ==
    IF s = <<>> THEN <<cur>>
    ELSE IF Head(s) = sep THEN <<cur>> \o SplitFrom(Tail(s), sep, <<>>)
    ELSE SplitFrom(Tail(s), sep, Append(cur, Head(s)))

split(s, sep) == SplitFrom(s, sep, <<>>)

(***************************************************************************)
(* The parsed tree (the HTMLParseResult the platform hands back).          *)
(***************************************************************************)
NodeIds == 1..Len(parent)

AttrNames == {"href", "src", "width", "height", "alt", "title", "class",
              "start", "onmouseover"}

NoAttrs == [a \in AttrNames |-> Null]

Element(tag, attrs) == [nodeType |-> "element", tagName |-> tag, attrs |-> attrs]
TextNode(text) == [nodeType |-> "text", text |-> text]
CommentNode == [nodeType |-> "comment"]

RECURSIVE ChildrenFrom(_, _)
ChildrenFrom(node, i) ==
    IF i > Len(parent) THEN <<>>
    ELSE IF parent[i] = node THEN <<i>> \o ChildrenFrom(node, i + 1)
    ELSE ChildrenFrom(node, i + 1)

getChildNodes(node) == ChildrenFrom(node, 1)

rootNodes == ChildrenFrom(0, 1)

isTextNode(node) == label[node].nodeType = "text"

isElementNode(node) == label[node].nodeType = "element"

\* the tag name of an element; undefined for any other node
undefinedName == "undefined"

getNodeElementName(node) ==
    IF label[node].nodeType = "element" THEN label[node].tagName ELSE undefinedName

getNodeText(node) == label[node].text

\* Node.textContent: the texts of the text nodes below the node, in
\* document order.
RECURSIVE textContent(_)
RECURSIVE TextOfNodes(_)
TextOfNodes(nodes) ==
    IF nodes = <<>> THEN <<>>
    ELSE textContent(Head(nodes)) \o TextOfNodes(Tail(nodes))

textContent(node) ==
    CASE label[node].nodeType = "text" -> label[node].text
      [] label[node].nodeType = "element" -> TextOfNodes(getChildNodes(node))
      [] OTHER -> <<>>

(***************************************************************************)
(* Outcomes of calls.                                                      *)
(***************************************************************************)
Ret(v, l) == [thrown |-> FALSE, val |-> v, log |-> l]
Raise(l) == [thrown |-> TRUE, val |-> Null, log |-> l]

\* r, and when r returned, then s
Then(r, s) ==
    IF r.thrown THEN r
    ELSE [thrown |-> s.thrown, val |-> s.val, log |-> r.log \o s.log]

\* r with the value v returned in place of r's
Giving(r, v) == IF r.thrown THEN r ELSE [r EXCEPT !.val = v]

AttrRead(node, attr) == [ev |-> "attr", node |-> node, name |-> attr]
Taken(ctx, node) == [ev |-> "node", node |-> node, ctx |-> ctx]
Linkified(node) == [ev |-> "linkify", node |-> node]

getAttributeValue(node, attr) ==
    Ret(IF attr \in DOMAIN label[node].attrs THEN label[node].attrs[attr] ELSE Null,
        <<AttrRead(node, attr)>>)


(***************************************************************************)
(* The collaborators the deserializer calls: linkify, parsePillLink and    *)
(* MediaRepository.mxcUrl, by their interface.                             *)
(***************************************************************************)
LinkChunks == {"https://example.org"}

\* linkify(text, callback): the tokens the callback is called with, in order.
\* The tokens cover the text without gaps; a link chunk is a link token, a
\* maximal run of other chunks is a text token.
RECURSIVE LinkifyFrom(_, _)
LinkifyFrom(s, cur) ==
    LET flush == IF cur = <<>> THEN <<>> ELSE <<[text |-> cur, isLink |-> FALSE]>>
    IN IF s = <<>> THEN flush
       ELSE IF Head(s) \in LinkChunks
            THEN flush \o <<[text |-> <<Head(s)>>, isLink |-> TRUE]>>
                 \o LinkifyFrom(Tail(s), <<>>)
       ELSE LinkifyFrom(Tail(s), Append(cur, Head(s)))

linkify(text) == LinkifyFrom(text, <<>>)

PillBase == "https://matrix.to/#/"

\* parsePillLink(href): null when href is no mention link, else an object
\* whose userId is set when the link names a user.
parsePillLink(href) ==
    IF Len(href.s) >= 2 /\ Head(href.s) = PillBase
    THEN LET contents == Tail(href.s)
         IN [t |-> "object",
             userId |-> IF Head(contents) = "@" THEN Str(contents) ELSE Null]
    ELSE Null

MxcScheme == "mxc://"

Repository == [t |-> "object", homeserver |-> "https://hs.tld"]

\* mediaRepository.mxcUrl(src): the download URL on the homeserver for an
\* mxc:// source, null for any other source.
mxcUrl(repository, src) ==
    IF src.s # <<>> /\ Head(src.s) = MxcScheme /\ Len(src.s) > 1
    THEN Str(<<repository.homeserver, "/_matrix/media/r0/download/">> \o Tail(src.s))
    ELSE Null

(***************************************************************************)
(* The parts of a MessageBody (MessageBody.js).                            *)
(***************************************************************************)
TextPart(text) == [type |-> "text", text |-> text]
LinkPart(url, inlines) == [type |-> "link", url |-> url, inlines |-> inlines]
PillPart(id, href, children) ==
    [type |-> "pill", id |-> id, href |-> href, children |-> children]
FormatPart(format, children) ==
    [type |-> "format", format |-> format, children |-> children]
NewLinePart == [type |-> "newline"]
RulePart == [type |-> "rule"]
HeaderBlock(level, inlines) == [type |-> "header", level |-> level, inlines |-> inlines]
ListBlock(startOffset, items) ==
    [type |-> "list", startOffset |-> startOffset, items |-> items]
CodeBlock(language, text) == [type |-> "codeblock", language |-> language, text |-> text]
ImagePart(url, width, height, alt, title) ==
    [type |-> "image", url |-> url, width |-> width, height |-> height,
     alt |-> alt, title |-> title]
MessageBody(sourceString, parts) == [sourceString |-> sourceString, parts |-> parts]

(***************************************************************************)
(* class Deserializer                                                      *)
(***************************************************************************)
basicInline == {"EM", "STRONG", "CODE", "DEL", "SPAN"}
basicBlock == {"DIV", "BLOCKQUOTE"}

\* The two traversals call each other through the methods below them; every
\* such call passes here: _parseNodes("inline", nodes, into) is
\* this._parseInlineNodes(nodes, into) and _parseNodes("any", nodes, into) is
\* this._parseAnyNodes(nodes, into).
RECURSIVE _parseNodes(_, _, _)

parseInlineNodes(nodes) == _parseNodes("inline", nodes, <<>>)

parseAnyNodes(nodes) == _parseNodes("any", nodes, <<>>)

\* parseLink, were it to keep the handler of the anchor as its title
parseLink_KeepsHandler(node, children) ==
    LET read == getAttributeValue(node, "href")
        handler == getAttributeValue(node, "onmouseover")
    IN Then(read, Giving(handler,
            [type |-> "link", url |-> read.val, inlines |-> children,
             title |-> handler.val]))

\* parseLink, were it to make a pill of every mention link
parseLink_PillWithoutUser(node, children) ==
    LET read == getAttributeValue(node, "href")
        href == read.val
        pillData == IF Truthy(href) THEN parsePillLink(href) ELSE href
    IN IF Truthy(pillData)
       THEN Giving(read, PillPart(pillData.userId, href, children))
       ELSE Giving(read, LinkPart(href, children))

parseLink(node, children) ==
    LET read == getAttributeValue(node, "href")
        href == read.val
        pillData == IF Truthy(href) THEN parsePillLink(href) ELSE href
    IN IF Truthy(pillData) /\ Truthy(pillData.userId)
       THEN Giving(read, PillPart(pillData.userId, href, children))
       ELSE Giving(read, LinkPart(href, children))

\* the loop over the children of the list
RECURSIVE parseListItems(_, _)

\* the loop of parseList, were it to take every element child as an item
RECURSIVE parseListItems_EveryElement(_, _)
parseListItems_EveryElement(children, nodes) ==
    IF children = <<>> THEN Ret(nodes, <<>>)
    ELSE LET child == Head(children)
         IN IF ~isElementNode(child)
            THEN parseListItems(Tail(children), nodes)
            ELSE LET item == parseAnyNodes(getChildNodes(child))
                 IN Then(item, parseListItems(Tail(children), Append(nodes, item.val)))

parseListItems(children, nodes) ==
    IF children = <<>> THEN Ret(nodes, <<>>)
    ELSE LET child == Head(children)
         IN IF getNodeElementName(child) # "LI"
            THEN parseListItems(Tail(children), nodes)
            ELSE LET item == parseAnyNodes(getChildNodes(child))
                 IN Then(item, parseListItems(Tail(children), Append(nodes, item.val)))

parseList(node) ==
    LET ordered == getNodeElementName(node) = "OL"
        read == IF ordered THEN getAttributeValue(node, "start") ELSE Ret(Null, <<>>)
        start == IF ordered THEN Or(parseInt(read.val), Num(1)) ELSE Null
        nodes == parseListItems(getChildNodes(node), <<>>)
    IN Then(read, Giving(nodes, ListBlock(start, nodes.val)))

\* the loop over the class names: the language of the first one that names it
RECURSIVE languageOf(_)
\* the loop over the class names, were it to take language-_ names too
RECURSIVE languageOf_WithUnderscore(_)
languageOf_WithUnderscore(clnames) ==
    IF clnames = <<>> THEN <<>>
    ELSE LET clname == Head(clnames)
         IN IF startsWith(clname, <<"l", "a", "n", "g", "u", "a", "g", "e", "-">>)
            THEN substring(clname, 9)
            ELSE languageOf(Tail(clnames))

languageOf(clnames) ==
    IF clnames = <<>> THEN <<>>
    ELSE LET clname == Head(clnames)
         IN IF startsWith(clname, <<"l", "a", "n", "g", "u", "a", "g", "e", "-">>)
               /\ ~startsWith(clname, <<"l", "a", "n", "g", "u", "a", "g", "e", "-", "_">>)
            THEN substring(clname, 9)
            ELSE languageOf(Tail(clnames))

parseCodeBlock(node) ==
    LET children == getChildNodes(node)
        hasCodeNode == children # <<>>
        codeNode == Head(children)
    IN IF ~(hasCodeNode /\ getNodeElementName(codeNode) = "CODE")
       THEN Ret(Null, <<>>)
       ELSE LET read == getAttributeValue(codeNode, "class")
                cl == Or(read.val, Str(<<>>))
                language == languageOf(split(cl.s, " "))
            IN Giving(read, CodeBlock(Str(language), Str(textContent(codeNode))))

\* parseImage, were it to take the src of the element as the URL
parseImage_TakesSrc(node) ==
    LET readSrc == getAttributeValue(node, "src")
        src == Or(readSrc.val, Str(<<>>))
    IN IF ~Truthy(src)
       THEN Giving(readSrc, Null)
       ELSE Giving(readSrc, ImagePart(src, Null, Null, Null, Null))

parseImage(node) ==
    LET readSrc == getAttributeValue(node, "src")
        src == Or(readSrc.val, Str(<<>>))
    IN IF mediaRepository = Null
       THEN Raise(readSrc.log)
       ELSE LET url == mxcUrl(mediaRepository, src)
            IN IF ~Truthy(url)
               THEN Giving(readSrc, Null)
               ELSE LET readWidth == getAttributeValue(node, "width")
                        width == Or(parseInt(readWidth.val), Null)
                        readHeight == getAttributeValue(node, "height")
                        height == Or(parseInt(readHeight.val), Null)
                        readAlt == getAttributeValue(node, "alt")
                        readTitle == getAttributeValue(node, "title")
                    IN Ret(ImagePart(url, width, height, readAlt.val, readTitle.val),
                           readSrc.log \o readWidth.log \o readHeight.log
                               \o readAlt.log \o readTitle.log)

parseInlineElement(node) ==
    LET tag == getNodeElementName(node)
        children == getChildNodes(node)
    IN CASE tag = "A" ->
              LET inlines == parseInlineNodes(children)
              IN Then(inlines, parseLink(node, inlines.val))
         [] tag = "BR" -> Ret(NewLinePart, <<>>)
         [] OTHER ->
              IF tag \notin basicInline
              THEN Ret(Null, <<>>)
              ELSE LET inlines == parseInlineNodes(children)
                   IN Giving(inlines, FormatPart(tag, inlines.val))

HeaderTags == {"H1", "H2", "H3", "H4", "H5", "H6"}

\* parseInt(tag[1]) for a header tag
HeaderLevel(tag) ==
    CASE tag = "H1" -> 1 [] tag = "H2" -> 2 [] tag = "H3" -> 3
      [] tag = "H4" -> 4 [] tag = "H5" -> 5 [] tag = "H6" -> 6

parseBlockElement(node) ==
    LET tag == getNodeElementName(node)
        children == getChildNodes(node)
    IN CASE tag \in HeaderTags ->
              LET inlines == parseInlineNodes(children)
              IN Giving(inlines, HeaderBlock(Num(HeaderLevel(tag)), inlines.val))
         [] tag \in {"UL", "OL"} -> parseList(node)
         [] tag = "PRE" -> parseCodeBlock(node)
         [] tag = "HR" -> Ret(RulePart, <<>>)
         [] tag = "IMG" -> parseImage(node)
         [] tag = "P" ->
              LET inlines == parseInlineNodes(children)
              IN Giving(inlines, FormatPart(tag, inlines.val))
         [] OTHER ->
              IF tag \notin basicBlock
              THEN Ret(Null, <<>>)
              ELSE LET blocks == parseAnyNodes(children)
                   IN Giving(blocks, FormatPart(tag, blocks.val))

parseBlockNode(node) ==
    IF isElementNode(node) THEN parseBlockElement(node) ELSE Ret(Null, <<>>)

\* parseInlineNode, were it to fall back to the block rules
parseInlineNode_WithBlocks(node) ==
    IF isElementNode(node)
    THEN LET inline == parseInlineElement(node)
         IN IF inline.thrown \/ Truthy(inline.val) THEN inline
            ELSE Then(inline, parseBlockElement(node))
    ELSE Ret(Null, <<>>)

parseInlineNode(node) ==
    IF isElementNode(node) THEN parseInlineElement(node) ELSE Ret(Null, <<>>)

\* the parts linkifyCallback pushes for the tokens of a text
RECURSIVE linkifyCallback(_, _)
\* linkifyCallback, were it to push a link without its text
RECURSIVE linkifyCallback_BareLink(_, _)
linkifyCallback_BareLink(tokens, into) ==
    IF tokens = <<>> THEN into
    ELSE LET text == Str(Head(tokens).text)
         IN linkifyCallback(Tail(tokens),
                Append(into, IF Head(tokens).isLink
                             THEN LinkPart(text, <<>>)
                             ELSE TextPart(text)))

linkifyCallback(tokens, into) ==
    IF tokens = <<>> THEN into
    ELSE LET text == Str(Head(tokens).text)
         IN linkifyCallback(Tail(tokens),
                Append(into, IF Head(tokens).isLink
                             THEN LinkPart(text, <<TextPart(text)>>)
                             ELSE TextPart(text)))

\* returns [ret |-> the boolean returned, into |-> the list after the call]
_parseTextParts(node, into) ==
    IF ~isTextNode(node)
    THEN Ret([ret |-> FALSE, into |-> into], <<>>)
    ELSE Ret([ret |-> TRUE, into |-> linkifyCallback(linkify(getNodeText(node)), into)],
             <<Linkified(node)>>)

\* _parseInlineNodes, were it to skip the children of an element it does not
\* recognize
_parseInlineNodes_SkipsChildren(nodes, into) ==
    IF nodes = <<>> THEN Ret(into, <<>>)
    ELSE LET htmlNode == Head(nodes)
             text == _parseTextParts(htmlNode, into)
             node == parseInlineNode(htmlNode)
             step == IF text.val.ret THEN Giving(text, text.val.into)
                     ELSE IF node.thrown THEN node
                     ELSE IF Truthy(node.val) THEN Giving(node, Append(into, node.val))
                     ELSE Giving(node, into)
         IN Then(Ret(Null, <<Taken("inline", htmlNode)>>),
                 Then(step, _parseNodes("inline", Tail(nodes), step.val)))

\* returns the list `into` after the loop
_parseInlineNodes(nodes, into) ==
    IF nodes = <<>> THEN Ret(into, <<>>)
    ELSE LET htmlNode == Head(nodes)
             text == _parseTextParts(htmlNode, into)
             node == parseInlineNode(htmlNode)
             step == IF text.val.ret THEN Giving(text, text.val.into)
                     ELSE IF node.thrown THEN node
                     ELSE IF Truthy(node.val) THEN Giving(node, Append(into, node.val))
                     ELSE Then(node, _parseNodes("inline", getChildNodes(htmlNode), into))
         IN Then(Ret(Null, <<Taken("inline", htmlNode)>>),
                 Then(step, _parseNodes("inline", Tail(nodes), step.val)))

\* _parseAnyNodes, were it to move on to the children of a node it has made a
\* part of as well
_parseAnyNodes_ChildrenAgain(nodes, into) ==
    IF nodes = <<>> THEN Ret(into, <<>>)
    ELSE LET htmlNode == Head(nodes)
             text == _parseTextParts(htmlNode, into)
             inline == parseInlineNode(htmlNode)
             node == IF inline.thrown \/ Truthy(inline.val) THEN inline
                     ELSE Then(inline, parseBlockNode(htmlNode))
             step == IF text.val.ret THEN Giving(text, text.val.into)
                     ELSE IF node.thrown THEN node
                     ELSE IF Truthy(node.val)
                          THEN Then(node, _parseNodes("any", getChildNodes(htmlNode),
                                                      Append(into, node.val)))
                     ELSE Then(node, _parseNodes("any", getChildNodes(htmlNode), into))
         IN Then(Ret(Null, <<Taken("any", htmlNode)>>),
                 Then(step, _parseNodes("any", Tail(nodes), step.val)))

\* returns the list `into` after the loop
_parseAnyNodes(nodes, into) ==
    IF nodes = <<>> THEN Ret(into, <<>>)
    ELSE LET htmlNode == Head(nodes)
             text == _parseTextParts(htmlNode, into)
             inline == parseInlineNode(htmlNode)
             node == IF inline.thrown \/ Truthy(inline.val) THEN inline
                     ELSE Then(inline, parseBlockNode(htmlNode))
             step == IF text.val.ret THEN Giving(text, text.val.into)
                     ELSE IF node.thrown THEN node
                     ELSE IF Truthy(node.val) THEN Giving(node, Append(into, node.val))
                     ELSE Then(node, _parseNodes("any", getChildNodes(htmlNode), into))
         IN Then(Ret(Null, <<Taken("any", htmlNode)>>),
                 Then(step, _parseNodes("any", Tail(nodes), step.val)))

_parseNodes(ctx, nodes, into) ==
    IF ctx = "inline" THEN _parseInlineNodes(nodes, into) ELSE _parseAnyNodes(nodes, into)

(***************************************************************************)
(* parseHTMLBody(platform, mediaRepository, html)                          *)
(***************************************************************************)
\* the html string stands for the tree platform.parseHTML makes of it
html == [parent |-> parent, label |-> label]

ParseHTMLBody ==
    /\ pc = "ready"
    /\ \E parts \in {parseAnyNodes(rootNodes)} :
          /\ pc' = IF parts.thrown THEN "thrown" ELSE "returned"
          /\ result' = IF parts.thrown THEN Null ELSE MessageBody(html, parts.val)
          /\ log' = parts.log
    /\ UNCHANGED <<parent, label, mediaRepository>>

Next == ParseHTMLBody

(***************************************************************************)
(* The calls checked: every tree of at most maxNodes nodes labelled from   *)
(* labels, with every media repository of repositories.                    *)
(***************************************************************************)
\* the parents a node appended after node i of `parents` may have: node i
\* and its ancestors, 0 included
RECURSIVE OpenNodes(_, _)
OpenNodes(parents, i) ==
    IF i = 0 THEN {0} ELSE {i} \cup OpenNodes(parents, parents[i])

\* the parent sequences of the trees of n nodes numbered in document order
RECURSIVE Shapes(_)
Shapes(n) ==
    IF n = 0 THEN {<<>>}
    ELSE UNION {{Append(parents, p) : p \in OpenNodes(parents, n - 1)} :
                parents \in Shapes(n - 1)}

\* only elements have child nodes
WellFormed(parents, labels) ==
    \A i \in 1..Len(parents) :
        parents[i] # 0 => labels[parents[i]].nodeType = "element"

InitWith(maxNodes, labels, repositories) ==
    /\ \E n \in 0..maxNodes :
          /\ parent \in Shapes(n)
          /\ label \in [1..n -> labels]
    /\ WellFormed(parent, label)
    /\ mediaRepository \in repositories
    /\ pc = "ready"
    /\ result = Null
    /\ log = <<>>

With(attr, chars) == [NoAttrs EXCEPT ![attr] = Str(chars)]

\* the nodes of the source's tests and of the tags the deserializer names
Text == TextNode(<<"H", "i">>)
EM == Element("EM", NoAttrs)
CODE == Element("CODE", NoAttrs)
DFN == Element("DFN", NoAttrs)
P == Element("P", NoAttrs)
DIV == Element("DIV", NoAttrs)
H2 == Element("H2", NoAttrs)
HR == Element("HR", NoAttrs)
BR == Element("BR", NoAttrs)
OL == Element("OL", NoAttrs)
UL == Element("UL", NoAttrs)
LI == Element("LI", NoAttrs)
PRE == Element("PRE", NoAttrs)
A == Element("A", With("href", <<"https://example.org">>))
IMG == Element("IMG", With("src", <<MxcScheme, "hs.tld/id">>))

\* the bounds: the number of nodes of a tree over a few kinds of node, over
\* many kinds of node, over two or three kinds of node, and of a tree over
\* every kind of node or whose attributes change between two calls
MaxNodes == 4
MaxNodesRich == 3
MaxNodesDeep == 5
MaxNodesAll == 2

(***************************************************************************)
(* Unknown elements and the two contexts.                                  *)
(***************************************************************************)
ContextLabels == {Text, EM, DFN, P}
ContextRichLabels == {Text, EM, A, P, H2, OL, PRE, CODE, HR, IMG, DIV}
ContextDeepLabels == {Text, DFN, BR}

InitContext ==
    \/ InitWith(MaxNodes, ContextLabels, {Repository})
    \/ InitWith(MaxNodesRich, ContextRichLabels, {Repository})
    \/ InitWith(MaxNodesDeep, ContextDeepLabels, {Repository})

SpecContext == InitContext /\ [][Next]_vars

(***************************************************************************)
(* Helpers of the properties.                                              *)
(***************************************************************************)
\* the node sequence a node is an element of, and its parts before and
\* after the node
Siblings(n) == getChildNodes(parent[n])
Before(n) == SelectSeq(Siblings(n), LAMBDA m : m < n)
After(n) == SelectSeq(Siblings(n), LAMBDA m : m > n)

\* the traversal took node n as an element of a node sequence in context ctx
TakenIn(ctx, n) == \E i \in DOMAIN log : log[i] = Taken(ctx, n)

Contexts == {"inline", "any"}

\* the parts of a node sequence classified in context ctx
PartsIn(ctx, nodes) ==
    IF ctx = "inline" THEN parseInlineNodes(nodes).val ELSE parseAnyNodes(nodes).val

RECURSIVE Flat(_)
Flat(seqs) == IF seqs = <<>> THEN <<>> ELSE Head(seqs) \o Flat(Tail(seqs))

\* the child parts of a part
ChildParts(part) ==
    CASE part.type = "format" -> part.children
      [] part.type = "pill" -> part.children
      [] part.type = "link" -> part.inlines
      [] part.type = "header" -> part.inlines
      [] part.type = "list" -> Flat(part.items)
      [] OTHER -> <<>>

\* the parts of a part sequence and all the parts below them
RECURSIVE AllParts(_)
AllParts(parts) ==
    IF parts = <<>> THEN {}
    ELSE {Head(parts)} \cup AllParts(ChildParts(Head(parts))) \cup AllParts(Tail(parts))

(***************************************************************************)
(* C1                                                                      *)
(***************************************************************************)
InlineRuleTags == {"A", "BR", "EM", "STRONG", "CODE", "DEL", "SPAN"}
BlockRuleTags == {"H1", "H2", "H3", "H4", "H5", "H6", "UL", "OL", "PRE", "HR",
                  "IMG", "P", "DIV", "BLOCKQUOTE"}

\* no rule of context ctx matches the tag of element n
Unmatched(ctx, n) ==
    /\ isElementNode(n)
    /\ label[n].tagName \notin InlineRuleTags
    /\ ctx = "any" => label[n].tagName \notin BlockRuleTags

\* C1: an element whose tag no rule of the context it is met in matches adds
\* no part of its own, and the parts of its children, classified in that same
\* context, stand in the output between the parts of the siblings before it
\* and the parts of the siblings after it.
C1_UnknownElementSpliced ==
    pc = "returned" =>
        \A n \in NodeIds : \A ctx \in Contexts :
            TakenIn(ctx, n) /\ Unmatched(ctx, n) =>
                PartsIn(ctx, Siblings(n)) =
                    PartsIn(ctx, Before(n)) \o PartsIn(ctx, getChildNodes(n))
                        \o PartsIn(ctx, After(n))

\* an unknown element inside an unknown element, between a line break and a
\* text: the inner text stands between their parts
C1_Witness ==
    /\ pc = "returned"
    /\ parent = <<0, 0, 2, 3, 0>>
    /\ label = <<BR, DFN, DFN, Text, BR>>
    /\ result.parts = <<NewLinePart, TextPart(Str(<<"H", "i">>)), NewLinePart>>

(***************************************************************************)
(* C2                                                                      *)
(***************************************************************************)
BasicInlineTags == {"EM", "STRONG", "CODE", "DEL", "SPAN"}

InlineLevel(part) ==
    \/ part.type \in {"text", "link", "pill", "newline"}
    \/ part.type = "format" /\ part.format \in BasicInlineTags

\* the parts whose children were classified in inline context
InlineParent(part) ==
    \/ part.type \in {"link", "pill", "header"}
    \/ part.type = "format" /\ part.format \in BasicInlineTags \cup {"P"}

\* C2: inline context produces inline-level parts only: every part below a
\* Format part with a basic inline tag or tag P, below a Link, a Pill or a
\* Header is a Text, Link, Pill, NewLine or Format part with a basic inline
\* tag, and so is every part that a node met in inline context contributes.
C2_InlineContextInlineOnly ==
    pc = "returned" =>
        /\ \A part \in AllParts(result.parts) :
               InlineParent(part) =>
                   \A below \in AllParts(ChildParts(part)) : InlineLevel(below)
        /\ \A n \in NodeIds :
               TakenIn("inline", n) =>
                   \A part \in AllParts(PartsIn("inline", <<n>>)) : InlineLevel(part)

\* a header inside an emphasis: the header is gone, its inline content stays
C2_Witness ==
    /\ pc = "returned"
    /\ parent = <<0, 1, 2>>
    /\ label = <<EM, H2, A>>
    /\ TakenIn("inline", 2)
    /\ result.parts =
           <<FormatPart("EM", <<LinkPart(Str(<<"https://example.org">>), <<>>)>>)>>

(***************************************************************************)
(* Attributes: a second call on the same tree with an attribute the        *)
(* deserializer does not name set or removed.                              *)
(***************************************************************************)
Script == <<"a", "l", "e", "r", "t", "(", ")">>

IgnoredAttrNames == {"onmouseover"}

ChangeIgnoredAttribute ==
    /\ pc \in {"ready", "returned"}
    /\ \E n \in NodeIds : \E a \in IgnoredAttrNames :
          /\ isElementNode(n)
          /\ label' = [label EXCEPT ![n].attrs[a] =
                           IF @ = Null THEN Str(Script) ELSE Null]
    /\ pc' = "ready"
    /\ UNCHANGED <<parent, mediaRepository, result, log>>

NextAttrs == ParseHTMLBody \/ ChangeIgnoredAttribute

OLFrom3 == Element("OL", With("start", <<"3">>))
CODEjs ==
    Element("CODE", With("class", <<"l", "a", "n", "g", "u", "a", "g", "e", "-", "j", "s">>))
IMGFull ==
    Element("IMG", [NoAttrs EXCEPT !["src"] = Str(<<MxcScheme, "hs.tld/id">>),
                                   !["width"] = Str(<<"3", "2">>),
                                   !["height"] = Str(<<"2", "4">>),
                                   !["alt"] = Str(<<"a", "l", "t">>),
                                   !["title"] = Str(<<"t", "i", "t", "l", "e">>)])

AttrsLabels == {Text, EM, A, OLFrom3, PRE, CODEjs, IMGFull}

InitAttrs == InitWith(MaxNodesAll, AttrsLabels, {Repository})

SpecAttrs == InitAttrs /\ [][NextAttrs]_vars

(***************************************************************************)
(* C3                                                                      *)
(***************************************************************************)
AllowedAttrs == {"href", "src", "width", "height", "alt", "title", "class", "start"}

\* C3: a call reads no attribute other than href, src, width, height, alt,
\* title, class and start, and a call on a tree that differs from the tree of
\* the call before only in other attributes returns the same parts.
C3_OnlyAllowedAttributesRead ==
    [][pc' = "returned" =>
          /\ \A i \in DOMAIN log' : log'[i].ev = "attr" => log'[i].name \in AllowedAttrs
          /\ (pc = "ready" /\ result # Null) => result'.parts = result.parts]_vars

\* <a href=... onmouseover=alert()>Hi</a>: href is read, and the link holds
\* the href and the text alone
C3_Witness ==
    /\ pc = "returned"
    /\ parent = <<0, 1>>
    /\ label = <<[A EXCEPT !.attrs["onmouseover"] = Str(Script)], Text>>
    /\ \E i \in DOMAIN log : log[i] = AttrRead(1, "href")
    /\ result.parts = <<LinkPart(Str(<<"https://example.org">>),
                                 <<TextPart(Str(<<"H", "i">>))>>)>>

(***************************************************************************)
(* Images, with and without a media repository.                            *)
(***************************************************************************)
IMGNoSrc == Element("IMG", NoAttrs)
IMGForeign == Element("IMG", With("src", <<"https://evil.example/", "x.png">>))

ImageLabels == {Text, CommentNode, EM, DIV, IMG, IMGFull, IMGNoSrc, IMGForeign}

InitImage == InitWith(MaxNodesRich, ImageLabels, {Null, Repository})

SpecImage == InitImage /\ [][Next]_vars

(***************************************************************************)
(* C4                                                                      *)
(***************************************************************************)
\* C4: parseHTMLBody never raises, whatever tree the platform delivers and
\* whatever media repository the caller passes: every call returns a
\* MessageBody.
C4_NeverRaises == pc # "thrown"

(***************************************************************************)
(* C8                                                                      *)
(***************************************************************************)
IsImg(n) == isElementNode(n) /\ label[n].tagName = "IMG"

\* what the media repository returns for the src of element n
Resolved(n) ==
    LET src == label[n].attrs["src"]
    IN mxcUrl(mediaRepository, IF src = Null THEN Str(<<>>) ELSE src)

\* C8: an Image part stands in the output only for an IMG element met in any
\* context whose src the media repository resolved, and holds the URL the
\* repository returned; an IMG element whose src did not resolve, and an IMG
\* element met in inline context, adds no part and its children are classified.
C8_ImageOnlyResolved ==
    pc = "returned" =>
        /\ \A part \in AllParts(result.parts) :
               part.type = "image" =>
                   \E n \in NodeIds :
                       /\ IsImg(n) /\ TakenIn("any", n)
                       /\ Resolved(n) # Null /\ part.url = Resolved(n)
        /\ \A n \in NodeIds :
               IsImg(n) /\ TakenIn("any", n) =>
                   IF Resolved(n) # Null
                   THEN /\ Len(PartsIn("any", <<n>>)) = 1
                        /\ PartsIn("any", <<n>>)[1].type = "image"
                        /\ PartsIn("any", <<n>>)[1].url = Resolved(n)
                   ELSE PartsIn("any", <<n>>) = PartsIn("any", getChildNodes(n))
        /\ \A n \in NodeIds :
               IsImg(n) /\ TakenIn("inline", n) =>
                   PartsIn("inline", <<n>>) = PartsIn("inline", getChildNodes(n))

\* an image of another site with a text in it, then an image of the media
\* repository: the text, then the image with the download URL
C8_Witness ==
    /\ pc = "returned"
    /\ parent = <<0, 1, 0>>
    /\ label = <<IMGForeign, Text, IMG>>
    /\ result.parts =
           <<TextPart(Str(<<"H", "i">>)),
             ImagePart(Str(<<"https://hs.tld", "/_matrix/media/r0/download/", "hs.tld/id">>),
                       Null, Null, Null, Null)>>

(***************************************************************************)
(* Lists.                                                                  *)
(***************************************************************************)
OLFrom0 == Element("OL", With("start", <<"0">>))
OLFrom1A == Element("OL", With("start", <<"1", "A">>))
OLFromAbc == Element("OL", With("start", <<"a", "b", "c">>))
ULFrom3 == Element("UL", With("start", <<"3">>))

ListStartLabels == {Text, LI, OL, OLFrom3, OLFrom0, OLFrom1A, OLFromAbc, UL, ULFrom3}
ListLabels == {Text, OL, LI, P}

InitList ==
    \/ InitWith(MaxNodesRich, ListStartLabels, {Repository})
    \/ InitWith(MaxNodes, ListLabels, {Repository})

SpecList == InitList /\ [][Next]_vars

IsList(n) == isElementNode(n) /\ label[n].tagName \in {"OL", "UL"}

(***************************************************************************)
(* C5                                                                      *)
(***************************************************************************)
\* the start attribute of element n parsed as an integer, 1 when it is
\* missing or does not parse
StartOf(n) ==
    LET parsed == parseInt(label[n].attrs["start"])
    IN IF parsed.t = "number" THEN parsed ELSE Num(1)

\* C5: the starting index of the List part of an OL element is the integer
\* parsed from its start attribute, 1 when the attribute is missing or does
\* not parse; the starting index of the List part of a UL element is null
\* whatever its start attribute.
C5_ListStart ==
    pc = "returned" =>
        \A n \in NodeIds :
            IsList(n) /\ TakenIn("any", n) =>
                /\ PartsIn("any", <<n>>) = <<parseList(n).val>>
                /\ parseList(n).val.startOffset =
                       IF label[n].tagName = "OL" THEN StartOf(n) ELSE Null

(***************************************************************************)
(* C6                                                                      *)
(***************************************************************************)
IsLI(n) == isElementNode(n) /\ label[n].tagName = "LI"

\* node n and the nodes below it
Subtree(n) == {m \in NodeIds : n \in OpenNodes(parent, m)}

\* C6: the List part of an OL or UL element met in any context has one item
\* for each LI child of the element, in document order, the item being the
\* LI's children classified in any context; the other children of the list
\* and the nodes below them are not classified.
C6_ListItems ==
    pc = "returned" =>
        \A n \in NodeIds :
            IsList(n) /\ TakenIn("any", n) =>
                LET list == parseList(n)
                    items == SelectSeq(getChildNodes(n), IsLI)
                IN /\ PartsIn("any", <<n>>) = <<list.val>>
                   /\ list.val.type = "list"
                   /\ Len(list.val.items) = Len(items)
                   /\ \A i \in 1..Len(items) :
                          list.val.items[i] = PartsIn("any", getChildNodes(items[i]))
                   /\ \A c \in NodeIds :
                          parent[c] = n /\ ~IsLI(c) =>
                              \A i \in DOMAIN list.log : list.log[i].node \notin Subtree(c)

\* <ol>Hi<li><p></p></li></ol>: the text is dropped, the item holds the
\* paragraph
C6_Witness ==
    /\ pc = "returned"
    /\ parent = <<0, 1, 1, 3>>
    /\ label = <<OL, Text, LI, P>>
    /\ result.parts = <<ListBlock(Num(1), << <<FormatPart("P", <<>>)>> >>)>>

(***************************************************************************)
(* Texts.                                                                  *)
(***************************************************************************)
LinkText == TextNode(<<"see ", "https://example.org", " now">>)

TextLabels == {Text, LinkText, EM, P}

InitText == InitWith(MaxNodes, TextLabels, {Repository})

SpecText == InitText /\ [][Next]_vars

(***************************************************************************)
(* C7                                                                      *)
(***************************************************************************)
\* the part of a token of the linkifier
TokenPart(token) ==
    IF token.isLink
    THEN [type |-> "link", url |-> Str(token.text),
          inlines |-> <<[type |-> "text", text |-> Str(token.text)]>>]
    ELSE [type |-> "text", text |-> Str(token.text)]

TokenParts(tokens) == [i \in 1..Len(tokens) |-> TokenPart(tokens[i])]

\* C7: a text node, in any and in inline context, adds one part for each token
\* the linkifier emits for its text, in the order of the tokens: a Text part
\* with the token's text, or for a link a Link part to that text that holds
\* one Text part with it; a tree that is one text without a link yields one
\* Text part, the text.
C7_TextParts ==
    pc = "returned" =>
        /\ \A n \in NodeIds : \A ctx \in Contexts :
               isTextNode(n) /\ TakenIn(ctx, n) =>
                   PartsIn(ctx, Siblings(n)) =
                       PartsIn(ctx, Before(n)) \o TokenParts(linkify(getNodeText(n)))
                           \o PartsIn(ctx, After(n))
        /\ (/\ Len(parent) = 1
            /\ isTextNode(1)
            /\ \A i \in DOMAIN linkify(getNodeText(1)) : ~linkify(getNodeText(1))[i].isLink)
               => result.parts = <<[type |-> "text", text |-> Str(getNodeText(1))]>>

\* <em>see https://example.org now</em>Hi: text, link with its text, text
\* inside the emphasis, and the text after it
C7_Witness ==
    /\ pc = "returned"
    /\ parent = <<0, 1, 0>>
    /\ label = <<EM, LinkText, Text>>
    /\ TakenIn("inline", 2) /\ TakenIn("any", 3)
    /\ result.parts =
           <<FormatPart("EM",
                 <<TextPart(Str(<<"see ">>)),
                   LinkPart(Str(<<"https://example.org">>),
                            <<TextPart(Str(<<"https://example.org">>))>>),
                   TextPart(Str(<<" now">>))>>),
             TextPart(Str(<<"H", "i">>))>>

(***************************************************************************)
(* Code blocks.                                                            *)
(***************************************************************************)
CODEOther ==
    Element("CODE", With("class", <<"h", "l", " ", "l", "a", "n", "g", "u", "a", "g",
                                    "e", "-", "j", "s", " ", "l", "a", "n", "g", "u",
                                    "a", "g", "e", "-", "c">>))
CODEUnderscore ==
    Element("CODE", With("class", <<"l", "a", "n", "g", "u", "a", "g", "e", "-", "_",
                                    "x", " ", "l", "a", "n", "g", "u", "a", "g", "e",
                                    "-", "p", "y">>))
CODEPlain == Element("CODE", With("class", <<"h", "l">>))

CodeRichLabels == {Text, EM, PRE, CODE, CODEjs, CODEOther, CODEUnderscore, CODEPlain}
CodeLabels == {Text, PRE, CODE, EM}

InitCode ==
    \/ InitWith(MaxNodesRich, CodeRichLabels, {Repository})
    \/ InitWith(MaxNodes, CodeLabels, {Repository})

SpecCode == InitCode /\ [][Next]_vars

(***************************************************************************)
(* C9                                                                      *)
(***************************************************************************)
IsPre(n) == isElementNode(n) /\ label[n].tagName = "PRE"
IsCode(n) == isElementNode(n) /\ label[n].tagName = "CODE"

LanguagePrefix == <<"l", "a", "n", "g", "u", "a", "g", "e", "-">>

\* the rest of the first class name of element c that starts with
\* "language-" and not with "language-_", the empty string if there is none
LanguageOfClass(c) ==
    LET class == label[c].attrs["class"]
        names == IF class = Null THEN <<>> ELSE split(class.s, " ")
        named == {i \in DOMAIN names :
                     /\ startsWith(names[i], LanguagePrefix)
                     /\ ~startsWith(names[i], LanguagePrefix \o <<"_">>)}
        first == CHOOSE i \in named : \A j \in named : i <= j
    IN IF named = {} THEN <<>>
       ELSE SubSeq(names[first], Len(LanguagePrefix) + 1, Len(names[first]))

\* the texts of the text nodes below node c, in document order
TextBelow(c) ==
    Flat([i \in 1..Len(parent) |->
             IF i \in Subtree(c) /\ isTextNode(i) THEN label[i].text ELSE <<>>])

ANoHref == Element("A", NoAttrs)
AEmptyHref == Element("A", With("href", <<>>))
AUser == Element("A", With("href", <<PillBase, "@", "alice:hs.tld">>))
ARoom == Element("A", With("href", <<PillBase, "#", "room:hs.tld">>))

LinkLabels == {Text, EM, P, A, ANoHref, AEmptyHref, AUser, ARoom}

InitLink == InitWith(MaxNodesRich, LinkLabels, {Repository})

SpecLink == InitLink /\ [][Next]_vars

(***************************************************************************)
(* C10                                                                     *)
(***************************************************************************)
IsAnchor(n) == isElementNode(n) /\ label[n].tagName = "A"

\* the user identifier parsePillLink recognizes for the href of anchor n,
\* null when there is none
UserOf(n) ==
    LET href == label[n].attrs["href"]
        recognized == IF href = Null \/ href.s = <<>> THEN Null ELSE parsePillLink(href)
    IN IF recognized = Null THEN Null ELSE recognized.userId

\* C10: an anchor, in any and in inline context, yields one part whose
\* children are the anchor's children classified in inline context: a Pill
\* with the user identifier and the href when parsePillLink recognizes a user
\* for the href, a Link with the href otherwise; no Pill is without a
\* recognized user.
C10_LinkOrPill ==
    pc = "returned" =>
        /\ \A n \in NodeIds : \A ctx \in Contexts :
               IsAnchor(n) /\ TakenIn(ctx, n) =>
                   LET href == label[n].attrs["href"]
                       children == PartsIn("inline", getChildNodes(n))
                   IN PartsIn(ctx, <<n>>) =
                          IF UserOf(n) # Null
                          THEN <<[type |-> "pill", id |-> UserOf(n), href |-> href,
                                  children |-> children]>>
                          ELSE <<[type |-> "link", url |-> href, inlines |-> children]>>
        /\ \A part \in AllParts(result.parts) :
               part.type = "pill" =>
                   \E n \in NodeIds :
                       IsAnchor(n) /\ UserOf(n) # Null /\ part.id = UserOf(n)

\* <a href="https://matrix.to/#/@alice:hs.tld"><p>Hi</p></a>: a pill for the
\* user that holds the text, the paragraph in it unwrapped
C10_Witness ==
    /\ pc = "returned"
    /\ parent = <<0, 1, 2>>
    /\ label = <<AUser, P, Text>>
    /\ result.parts =
           <<PillPart(Str(<<"@", "alice:hs.tld">>),
                      Str(<<PillBase, "@", "alice:hs.tld">>),
                      <<TextPart(Str(<<"H", "i">>))>>)>>

(***************************************************************************)
(* The order of the traversal.                                             *)
(***************************************************************************)
TextLo == TextNode(<<"L", "o">>)

OrderLabels == {Text, TextLo, EM, DFN, DIV}
OrderRichLabels == {Text, LinkText, EM, A, P, H2, OL, LI}

InitOrder ==
    \/ InitWith(MaxNodes, OrderLabels, {Repository})
    \/ InitWith(MaxNodesRich, OrderRichLabels, {Repository})

SpecOrder == InitOrder /\ [][Next]_vars

(***************************************************************************)
(* C11                                                                     *)
(***************************************************************************)
\* the nodes in the order the call classified them: taken by the loop of
\* _parseInlineNodes or _parseAnyNodes, passed to linkify
Classified == SelectSeq(log, LAMBDA e : e.ev \in {"node", "linkify"})

\* the parts of a part sequence read depth-first: a part, the parts below it,
\* the parts after it
RECURSIVE DepthFirst(_)
DepthFirst(parts) ==
    IF parts = <<>> THEN <<>>
    ELSE <<Head(parts)>> \o DepthFirst(ChildParts(Head(parts))) \o DepthFirst(Tail(parts))

\* the parts the call derived from node n itself: of a text node the parts of
\* its tokens, of an element the part the inline rules made of it or, in any
\* context, the block rules
OwnParts(n) ==
    IF isTextNode(n)
    THEN IF \E i \in DOMAIN log : log[i] = Linkified(n)
         THEN AllParts(TokenParts(linkify(getNodeText(n))))
         ELSE {}
    ELSE {made.val : made \in
             {made \in (IF \E ctx \in Contexts : TakenIn(ctx, n)
                        THEN {parseInlineNode(n)} ELSE {})
                           \cup (IF TakenIn("any", n) THEN {parseBlockNode(n)} ELSE {}) :
                 Truthy(made.val)}}

\* every part names the one node it was derived from: no two nodes have a
\* part in common
Told == \A m, n \in NodeIds : m # n => OwnParts(m) \cap OwnParts(n) = {}

Origin(part) == CHOOSE n \in NodeIds : part \in OwnParts(n)

\* C11: in a call no node is taken twice as an element of a node sequence, in
\* one context or in both, and no text node is passed to linkify twice; the
\* nodes are classified in document order, a text node being passed to
\* linkify right when it is taken; and where every part names its node, the
\* parts of the output read depth-first follow the document order of the
\* nodes they were derived from (each part's node is not after the next
\* part's node, hence not after the node of any later part).
C11_OnceInDocumentOrder ==
    /\ pc # "ready" =>
           \A i, j \in DOMAIN Classified :
               i < j =>
                   /\ Classified[i].node <= Classified[j].node
                   /\ Classified[i].node = Classified[j].node =>
                          /\ Classified[i].ev = "node"
                          /\ Classified[j].ev = "linkify"
                          /\ j = i + 1
    /\ (pc = "returned" /\ Told) =>
           LET output == DepthFirst(result.parts)
           IN /\ \A i \in DOMAIN output : \E n \in NodeIds : output[i] \in OwnParts(n)
              /\ \A i \in 1..(Len(output) - 1) :
                     Origin(output[i]) <= Origin(output[i + 1])

\* <div><dfn>Hi</dfn>Lo</div>: the division, the unknown element, its text
\* and the text after it are classified once each in this order, and the
\* parts are the division's, then the first text's, then the second text's
C11_Witness ==
    /\ pc = "returned"
    /\ parent = <<0, 1, 2, 1>>
    /\ label = <<DIV, DFN, Text, TextLo>>
    /\ Told
    /\ Classified = <<Taken("any", 1), Taken("any", 2), Taken("any", 3), Linkified(3),
                      Taken("any", 4), Linkified(4)>>
    /\ DepthFirst(result.parts) =
           <<FormatPart("DIV", <<TextPart(Str(<<"H", "i">>)), TextPart(Str(<<"L", "o">>))>>),
             TextPart(Str(<<"H", "i">>)), TextPart(Str(<<"L", "o">>))>>
    /\ Origin(DepthFirst(result.parts)[2]) = 3
    /\ Origin(DepthFirst(result.parts)[3]) = 4

(***************************************************************************)
(* Every kind of node together, in small trees.                            *)
(***************************************************************************)
AllLabels ==
    ContextRichLabels \cup ContextDeepLabels \cup AttrsLabels \cup ImageLabels
        \cup ListStartLabels \cup TextLabels \cup CodeRichLabels \cup LinkLabels

Init == InitWith(MaxNodesAll, AllLabels, {Null, Repository})

Spec == Init /\ [][Next]_vars

====
